---- MODULE Spec2Model ----
(***************************************************************************)
(* Model of the machine provisioning / teardown engine of the Azure        *)
(* machine-controller-manager provider (pkg/azure/fake/mockclient.go):     *)
(* createVMNicDisk (ordered creation with rollback), deleteVMNicDisks      *)
(* (instance first, then NIC and disks in parallel), the resource naming   *)
(* helpers and the fake PluginSPIImpl entry points.                        *)
(*                                                                         *)
(* The Azure backend is modelled as an honest but unreliable store: a get  *)
(* reports NotFound exactly when the resource is absent, a successful      *)
(* create or delete takes effect, and any call may fail with a backend     *)
(* failure.                                                                *)
(***************************************************************************)
EXTENDS Integers, Sequences, FiniteSets, TLC

VARIABLES
    req,         \* the CreateMachineRequest / decoded AzureProviderSpec
    backend,     \* resources held by the cloud backend
    op,          \* entry point of the current (or last finished) call
    pc,          \* position inside the current call, "idle" between calls
    tpc,         \* position inside deleteVMNicDisks, "none" when not running
    dl,          \* the deleters handed to RunInParallel: state, result, own calls
    calls,       \* backend operations issued sequentially by the current call
    createErr,   \* err of the failed creation step while rollback runs
    vmImageRef,  \* local vmImageRef of createVMNicDisk
    ret,         \* values returned by the last finished call
    td,          \* teardown bookkeeping of the current call
    logged,      \* errors written with klog.Errorf by the current call
    prev,        \* summary of the engine call finished before the current (or last) one
    cancelled    \* the caller has raised the cancellation signal of the current call

vars == <<req, backend, op, pc, tpc, dl, calls, createErr, vmImageRef, ret,
          td, logged, prev, cancelled>>

---------------------------------------------------------------------------
(* Bounds *)

\* the data disks of a request
MaxDataDisks == 1

\* the backend failures injected into one call
MaxFaults == 2

---------------------------------------------------------------------------
(* Values *)

\* a pointer is a sequence of at most one element: <<>> is nil, <<v>> points to v
Nil == <<>>
Ref(v) == <<v>>
Deref(p) == p[1]

\* an error value is the set of its messages: the empty set is the nil error
NoErr == {}

nicSuffix == "-nic"
diskSuffix == "-os-disk"
dataDiskSuffix == "-data-disk"

OtherVM == "other-vm"

---------------------------------------------------------------------------
(* Strings: a machine name is a sequence of characters so that ToLower can *)
(* be computed; every derived name is a string.                            *)

LowerOf(c) ==
    CASE c = "V" -> "v"
      [] c = "M" -> "m"
      [] OTHER -> c

RECURSIVE JoinChars(_)
JoinChars(s) == IF s = <<>> THEN "" ELSE Head(s) \o JoinChars(Tail(s))

ToLower(s) == JoinChars([i \in 1..Len(s) |-> LowerOf(s[i])])

Digit(d) ==
    CASE d = 0 -> "0" [] d = 1 -> "1" [] d = 2 -> "2" [] d = 3 -> "3"
      [] d = 4 -> "4" [] d = 5 -> "5" [] d = 6 -> "6" [] d = 7 -> "7"
      [] d = 8 -> "8" [] d = 9 -> "9"

RECURSIVE FormatNat(_)
FormatNat(n) == IF n < 10 THEN Digit(n) ELSE FormatNat(n \div 10) \o Digit(n % 10)

\* fmt.Sprintf("%d", n)
FormatInt(n) == IF n < 0 THEN "-" \o FormatNat(0 - n) ELSE FormatNat(n)

---------------------------------------------------------------------------
(* Resource naming *)

dependencyNameFromVMName(vmName, suffix) == vmName \o suffix

\* variant: the dependency is put in front of the instance name
dependencyNameDependencyFirst(dependency, vmName, suffix) ==
    dependency \o "-" \o vmName \o suffix

dependencyNameFromVMNameAndDependency(dependency, vmName, suffix) ==
    vmName \o "-" \o dependency \o suffix

getAzureDataDiskPrefix(name, lun) ==
    IF name # "" THEN name \o "-" \o FormatInt(lun) ELSE FormatInt(lun)

\* variant: an explicit LUN is not looked at
LunAtPositionOnly(disk, i) == i

\* diskLun of getAzureDataDiskNames for the disk at 0-based position i:
\* explicit, else int32(i)
LunAt(disk, i) == IF disk.Lun # Nil THEN Deref(disk.Lun) ELSE i

getAzureDataDiskNames(azureDataDisks, vmname, suffix) ==
    [k \in 1..Len(azureDataDisks) |->
        dependencyNameFromVMNameAndDependency(
            getAzureDataDiskPrefix(azureDataDisks[k].Name,
                                   LunAt(azureDataDisks[k], k - 1)),
            vmname, suffix)]

\* variant: the position is counted from one
dataDiskLunOneBased(azureDataDisk, i) ==
    IF azureDataDisk.Lun # Nil THEN Deref(azureDataDisk.Lun) ELSE i + 1

\* dataDiskLun of generateDataDisks for the disk at 0-based position i
dataDiskLun(azureDataDisk, i) ==
    IF azureDataDisk.Lun # Nil THEN Deref(azureDataDisk.Lun) ELSE i

\* variant: the caching of the descriptor is taken as it is, set or not
cachingAsGiven(azureDataDisk) == azureDataDisk.Caching

\* caching of generateDataDisks: CachingTypesNone unless the descriptor sets it
caching(azureDataDisk) ==
    IF azureDataDisk.Caching # "" THEN azureDataDisk.Caching ELSE "None"

generateDataDisks(vmName, azureDataDisks) ==
    [k \in 1..Len(azureDataDisks) |->
        [Lun |-> dataDiskLun(azureDataDisks[k], k - 1),
         Name |-> dependencyNameFromVMNameAndDependency(
                      getAzureDataDiskPrefix(azureDataDisks[k].Name,
                                             dataDiskLun(azureDataDisks[k], k - 1)),
                      vmName, dataDiskSuffix),
         Caching |-> caching(azureDataDisks[k]),
         StorageAccountType |-> azureDataDisks[k].StorageAccountType,
         DiskSizeGB |-> azureDataDisks[k].DiskSizeGB,
         CreateOption |-> "Empty"]]

\* the name given to the NIC definition
getNICParameters(vmName) == [Name |-> dependencyNameFromVMName(vmName, nicSuffix)]

---------------------------------------------------------------------------
(* Requests *)

\* data-disk descriptors of the provider spec (api.AzureDataDisk): the disks at
\* odd positions leave name, LUN and caching unset, the others set them
DiskAt(k) ==
    IF k % 2 = 1
    THEN [Name |-> "", Lun |-> Nil, Caching |-> "",
          StorageAccountType |-> "Standard_LRS", DiskSizeGB |-> 50]
    ELSE [Name |-> "d", Lun |-> Ref(k), Caching |-> "ReadOnly",
          StorageAccountType |-> "Premium_LRS", DiskSizeGB |-> 20]

DiskLists == { [k \in 1..n |-> DiskAt(k)] : n \in 0..MaxDataDisks }

MachineNames == { <<"v", "m", "-", "1">> }

\* ImageID "" means that the image is named by its URN
Requests ==
    [Name : MachineNames, Location : {"westeurope"}, DataDisks : DiskLists,
     ImageID : {"", "image-id"}, Zone : {Nil}, AvailabilitySet : {Nil}]

\* the local variables of createVMNicDisk derived from the request
vmName == ToLower(req.Name)
nicName == dependencyNameFromVMName(vmName, nicSuffix)
diskName == dependencyNameFromVMName(vmName, diskSuffix)
\* variant: the data disk names are never derived
dataDiskNamesNil == <<>>

dataDiskNames ==
    IF Len(req.DataDisks) > 0
    THEN getAzureDataDiskNames(req.DataDisks, vmName, dataDiskSuffix)
    ELSE <<>>

\* variant: the availability set is attached whether or not a zone is set
PlacementBoth(spec) ==
    [Zones |-> IF spec.Zone # Nil THEN Ref(<<FormatInt(Deref(spec.Zone))>>) ELSE Nil,
     AvailabilitySet |-> IF spec.AvailabilitySet # Nil
                         THEN Ref([ID |-> Deref(spec.AvailabilitySet)]) ELSE Nil]

\* if Zone != nil: Zones; else if AvailabilitySet != nil: AvailabilitySet
Placement(spec) ==
    [Zones |-> IF spec.Zone # Nil THEN Ref(<<FormatInt(Deref(spec.Zone))>>) ELSE Nil,
     AvailabilitySet |-> IF spec.Zone = Nil /\ spec.AvailabilitySet # Nil
                         THEN Ref([ID |-> Deref(spec.AvailabilitySet)]) ELSE Nil]

getVMParameters(spec, name, image, networkInterfaceReferenceID) ==
    [Name |-> name,
     Plan |-> IF image # Nil /\ Deref(image).Plan # Nil
              THEN Ref(Deref(Deref(image).Plan)) ELSE Nil,
     OsDisk |-> dependencyNameFromVMName(name, diskSuffix),
     DataDisks |-> IF Len(spec.DataDisks) > 0
                   THEN Ref(generateDataDisks(name, spec.DataDisks)) ELSE Nil,
     NetworkInterface |-> networkInterfaceReferenceID,
     Zones |-> Placement(spec).Zones,
     AvailabilitySet |-> Placement(spec).AvailabilitySet]

VMParameters == getVMParameters(req, vmName, vmImageRef, nicName)

---------------------------------------------------------------------------
(* The backend *)

\* vm: the instance named vmName (nil or its definition); nic / nicVM: the NIC
\* named nicName and the instance it is attached to ("" for none); disks: the
\* names of the existing disks; imagePlan: the plan of the marketplace image;
\* agreement: the Accepted field of the marketplace agreement of that plan
Backends ==
    [vm : {Nil}, nic : {FALSE}, nicVM : {""}, disks : {{}},
     imagePlan : {Nil, Ref("plan")}, agreement : {Nil, Ref(FALSE), Ref(TRUE)}]

\* the data disks an instance definition asks for: none when the field is nil
DataDisksOf(params) ==
    IF params.DataDisks = Nil THEN <<>> ELSE Deref(params.DataDisks)

DiskNamesOf(params) ==
    {params.OsDisk} \cup {DataDisksOf(params)[k].Name : k \in 1..Len(DataDisksOf(params))}

\* the instance realized from its definition: its disks exist and its NIC is
\* held; the backend gives the instance with the list of its data disks
RealizeVM(be, params) ==
    [be EXCEPT !.vm = Ref([params EXCEPT !.DataDisks = DataDisksOf(params)]),
               !.disks = @ \cup DiskNamesOf(params),
               !.nicVM = params.Name]

\* the instance removed: its NIC is released, its disks stay
RemoveVM(be) ==
    [be EXCEPT !.vm = Nil,
               !.nicVM = IF be.vm # Nil /\ @ = Deref(be.vm).Name THEN "" ELSE @]

Call(o, n, r) == [op |-> o, name |-> n, res |-> r]

\* every backend call of the current call: the sequential ones and the deleters'
RECURSIVE Flatten(_)
Flatten(ss) == IF ss = <<>> THEN <<>> ELSE Head(ss) \o Flatten(Tail(ss))

AllCalls(cs, d) == cs \o Flatten([k \in 1..Len(d) |-> d[k].calls])

FaultsIn(cs) == Cardinality({k \in 1..Len(cs) : cs[k].res = "fail"})

\* the context the backend calls of the current call are given: that of
\* createVMNicDisk is context.Background(), deleteVMNicDisks called by itself
\* is given its caller's
ctx == IF op = "createVMNicDisk" THEN "Background" ELSE "caller"

\* the context is done: context.Background() never is
Done(c) == c = "caller" /\ cancelled

\* the results the backend may give: a call whose context is done fails,
\* otherwise a failure occurs only while the budget lasts
Results(rs) ==
    {r \in rs : IF Done(ctx)
                THEN r = "fail"
                ELSE r = "fail" => FaultsIn(AllCalls(calls, dl)) < MaxFaults}

DeleteOps == {"vm.Delete", "nic.Delete", "disk.Delete"}

Summary(o, r, cs) ==
    [op |-> o, ok |-> r.err = NoErr,
     deleted |-> \E k \in 1..Len(cs) : cs[k].op \in DeleteOps /\ cs[k].res = "ok"]

\* the last finished call of createVMNicDisk or deleteVMNicDisks is remembered
\* when the next call starts; the calls of the fake plugin leave no trace
Remember ==
    IF op \in {"createVMNicDisk", "deleteVMNicDisks"}
    THEN Summary(op, ret, AllCalls(calls, dl))
    ELSE prev

NoTeardown == [count |-> 0, pre |-> Nil, done |-> FALSE, err |-> NoErr]

---------------------------------------------------------------------------
(* Initial state: nothing exists in the backend.  The agreement is only    *)
(* read for an image named by URN that has a plan.                         *)

Init ==
    /\ req \in Requests
    /\ backend \in Backends
    /\ req.ImageID # "" => backend.agreement = Nil
    /\ backend.imagePlan = Nil => backend.agreement = Nil
    /\ op = "none"
    /\ pc = "idle"
    /\ tpc = "none"
    /\ dl = <<>>
    /\ calls = <<>>
    /\ createErr = NoErr
    /\ vmImageRef = Nil
    /\ ret = [vm |-> Nil, err |-> NoErr]
    /\ td = NoTeardown
    /\ logged = {}
    /\ prev = Summary("none", [err |-> NoErr], <<>>)
    /\ cancelled = FALSE

---------------------------------------------------------------------------
(* Entering and leaving a call *)

\* a call of entry point o starts at p
Enter(o, p, t, tp) ==
    /\ pc = "idle"
    /\ op' = o
    /\ pc' = p
    /\ tpc' = tp
    /\ dl' = <<>>
    /\ calls' = <<>>
    /\ createErr' = NoErr
    /\ vmImageRef' = Nil
    /\ ret' = [vm |-> Nil, err |-> NoErr]
    /\ td' = t
    /\ logged' = {}
    /\ prev' = Remember
    /\ cancelled' = FALSE
    /\ UNCHANGED <<req, backend>>

\* the call returns (vm, err); be and cs are the backend and the call log then
Finish(vm, err, be, cs, lg, t) ==
    /\ pc' = "idle"
    /\ tpc' = "none"
    /\ createErr' = NoErr
    /\ ret' = [vm |-> vm, err |-> err]
    /\ backend' = be
    /\ calls' = cs
    /\ logged' = lg
    /\ td' = t
    /\ UNCHANGED <<req, cancelled, op, dl, vmImageRef, prev>>

\* a creation step succeeded: continue at next
Continue(next, be, cs) ==
    /\ pc' = next
    /\ backend' = be
    /\ calls' = cs
    /\ UNCHANGED <<req, cancelled, op, tpc, dl, createErr, vmImageRef, ret, td, logged, prev>>

\* a creation step failed with err: deleteVMNicDisks is entered for the rollback
Rollback(err, be, cs) ==
    /\ pc' = "rollback"
    /\ tpc' = "vmGet"
    /\ createErr' = err
    /\ backend' = be
    /\ calls' = cs
    /\ td' = [count |-> td.count + 1, pre |-> Ref(be), done |-> FALSE, err |-> NoErr]
    /\ UNCHANGED <<req, cancelled, op, dl, vmImageRef, ret, logged, prev>>

\* a call of entry point o that returns (vm, err) without a backend call
Immediate(o, vm, err) ==
    /\ pc = "idle"
    /\ op' = o
    /\ tpc' = "none"
    /\ dl' = <<>>
    /\ calls' = <<>>
    /\ createErr' = NoErr
    /\ vmImageRef' = Nil
    /\ ret' = [vm |-> vm, err |-> err]
    /\ td' = NoTeardown
    /\ logged' = {}
    /\ prev' = Remember
    /\ cancelled' = FALSE
    /\ UNCHANGED <<req, backend, pc>>

---------------------------------------------------------------------------
(* createVMNicDisk *)

\* entry: decode the provider spec, derive the names, set up the clients
CallCreate ==
    /\ pc = "idle"
    /\ \E r \in {"ok", "decodeProviderSpecAndSecret", "Setup"} :
          IF r = "ok"
          THEN Enter("createVMNicDisk", "subnet", NoTeardown, "none")
          ELSE Immediate("createVMNicDisk", Nil, {r})

\* variant: a failed subnet get runs the rollback like the later steps
SubnetGetWithRollback ==
    /\ pc = "subnet"
    /\ \E r \in Results({"ok", "fail"}) :
          LET cs == Append(calls, Call("subnet.Get", "subnet", r)) IN
          IF r = "ok"
          THEN Continue("nicCreate", backend, cs)
          ELSE Rollback({"Subnet.Get"}, backend, cs)

SubnetGet ==
    /\ pc = "subnet"
    /\ \E r \in Results({"ok", "fail"}) :
          LET cs == Append(calls, Call("subnet.Get", "subnet", r)) IN
          IF r = "ok"
          THEN Continue("nicCreate", backend, cs)
          ELSE Finish(Nil, {"Subnet.Get"}, backend, cs, logged, td)

\* variant: the instance is created right after the NIC create was submitted
NicCreateThenVM ==
    /\ pc = "nicCreate"
    /\ \E r \in Results({"ok", "fail"}) :
          LET cs == Append(calls, Call("nic.CreateOrUpdate", nicName, r)) IN
          IF r = "ok"
          THEN Continue("vmCreate", backend, cs)
          ELSE Rollback({"NIC.CreateOrUpdate"}, backend, cs)

NicCreate ==
    /\ pc = "nicCreate"
    /\ \E r \in Results({"ok", "fail"}) :
          LET cs == Append(calls, Call("nic.CreateOrUpdate", nicName, r)) IN
          IF r = "ok"
          THEN Continue("nicAwait", backend, cs)
          ELSE Rollback({"NIC.CreateOrUpdate"}, backend, cs)

\* the NIC is realized when the wait succeeds; it may or may not be when it fails
NicAwait ==
    /\ pc = "nicAwait"
    /\ \E r \in Results({"ok", "fail"}) :
          LET cs == Append(calls, Call("nic.WaitForCompletionRef", nicName, r))
              created == [backend EXCEPT !.nic = TRUE] IN
          IF r = "ok"
          THEN Continue("nicFetch", created, cs)
          ELSE \E be \in {backend, created} :
                  Rollback({"NIC.WaitForCompletionRef"}, be, cs)

\* variant: the image is resolved whether or not the spec gives its ID
NicFetchAlwaysResolves ==
    /\ pc = "nicFetch"
    /\ \E r \in Results({"ok", "fail"}) :
          LET cs == Append(calls, Call("nic.Result", nicName, r)) IN
          IF r = "ok"
          THEN Continue("imageGet", backend, cs)
          ELSE Rollback({"NIC.Result"}, backend, cs)

NicFetch ==
    /\ pc = "nicFetch"
    /\ \E r \in Results({"ok", "fail"}) :
          LET cs == Append(calls, Call("nic.Result", nicName, r)) IN
          IF r = "ok"
          THEN Continue(IF req.ImageID = "" THEN "imageGet" ELSE "vmCreate", backend, cs)
          ELSE Rollback({"NIC.Result"}, backend, cs)

ImageGet ==
    /\ pc = "imageGet"
    /\ \E r \in Results({"ok", "fail"}) :
          LET cs == Append(calls, Call("images.Get", "urn", r))
              vmImage == [Plan |-> backend.imagePlan] IN
          IF r = "ok"
          THEN /\ pc' = IF vmImage.Plan # Nil THEN "agreementGet" ELSE "vmCreate"
               /\ vmImageRef' = Ref(vmImage)
               /\ calls' = cs
               /\ UNCHANGED <<req, cancelled, backend, op, tpc, dl, createErr, ret, td, logged, prev>>
          ELSE Rollback({"VirtualMachineImages.Get"}, backend, cs)

\* variant: only an unset agreement is accepted, one set to false is left alone
AgreementGetAcceptsOnlyUnset ==
    /\ pc = "agreementGet"
    /\ \E r \in Results({"ok", "fail"}) :
          LET cs == Append(calls, Call("marketplace.Get", "plan", r))
              agreement == backend.agreement IN
          IF r = "ok"
          THEN Continue(IF agreement = Nil
                        THEN "agreementAccept" ELSE "vmCreate", backend, cs)
          ELSE Rollback({"MarketplaceAgreements.Get"}, backend, cs)

AgreementGet ==
    /\ pc = "agreementGet"
    /\ \E r \in Results({"ok", "fail"}) :
          LET cs == Append(calls, Call("marketplace.Get", "plan", r))
              agreement == backend.agreement IN
          IF r = "ok"
          THEN Continue(IF agreement = Nil \/ Deref(agreement) = FALSE
                        THEN "agreementAccept" ELSE "vmCreate", backend, cs)
          ELSE Rollback({"MarketplaceAgreements.Get"}, backend, cs)

AgreementAccept ==
    /\ pc = "agreementAccept"
    /\ \E r \in Results({"ok", "fail"}) :
          LET cs == Append(calls, Call("marketplace.Create", "plan", r)) IN
          IF r = "ok"
          THEN Continue("vmCreate", [backend EXCEPT !.agreement = Ref(TRUE)], cs)
          ELSE Rollback({"MarketplaceAgreements.Create"}, backend, cs)

VMCreate ==
    /\ pc = "vmCreate"
    /\ \E r \in Results({"ok", "fail"}) :
          LET cs == Append(calls, Call("vm.CreateOrUpdate", VMParameters.Name, r)) IN
          IF r = "ok"
          THEN Continue("vmAwait", backend, cs)
          ELSE Rollback({"VM.CreateOrUpdate"}, backend, cs)

\* the instance can be realized only with its NIC free or already its own
Attachable == backend.nic /\ backend.nicVM \in {"", vmName}

\* the instance is realized when the wait succeeds; it may or may not be when
\* it fails; the wait fails when the NIC is held by another instance
VMAwait ==
    /\ pc = "vmAwait"
    /\ \E r \in IF Attachable THEN Results({"ok", "fail"}) ELSE {"fail"} :
          LET cs == Append(calls, Call("vm.WaitForCompletionRef", VMParameters.Name, r))
              created == RealizeVM(backend, VMParameters) IN
          IF r = "ok"
          THEN Continue("vmFetch", created, cs)
          ELSE \E be \in {backend} \cup (IF Attachable THEN {created} ELSE {}) :
                  Rollback({"VM.WaitForCompletionRef"}, be, cs)

\* variant: the instance is returned together with the error of the fetch
VMFetchReturnsBoth ==
    /\ pc = "vmFetch"
    /\ \E r \in Results({"ok", "fail"}) :
          LET cs == Append(calls, Call("vm.Result", VMParameters.Name, r)) IN
          IF r = "ok"
          THEN Finish(backend.vm, NoErr, backend, cs, logged, td)
          ELSE Finish(backend.vm, {"VM.Result"}, backend, cs, logged, td)

VMFetch ==
    /\ pc = "vmFetch"
    /\ \E r \in Results({"ok", "fail"}) :
          LET cs == Append(calls, Call("vm.Result", VMParameters.Name, r)) IN
          IF r = "ok"
          THEN Finish(backend.vm, NoErr, backend, cs, logged, td)
          ELSE Rollback({"VM.Result"}, backend, cs)

---------------------------------------------------------------------------
(* deleteVMNicDisks *)

\* what an error branch of createVMNicDisk does with the teardown's result:
\* deleteErr is logged when it is not nil, the step's err is returned
RollbackLog(lg, deleteErr) == IF deleteErr # NoErr THEN lg \cup {deleteErr} ELSE lg

\* variant: the teardown's error replaces the step's error
RollbackReturnTeardownErr(stepErr, deleteErr) ==
    IF deleteErr # NoErr THEN deleteErr ELSE stepErr

RollbackReturn(stepErr, deleteErr) == stepErr

\* variant: the OS disk deleter is left out
DeletersWithoutOsDisk(nic, disk, dataDisks) ==
    <<[kind |-> "nic", name |-> nic]>>
    \o [k \in 1..Len(dataDisks) |-> [kind |-> "disk", name |-> dataDisks[k]]]

\* variant: the data disk deleters are left out
DeletersWithoutDataDisks(nic, disk, dataDisks) ==
    <<[kind |-> "nic", name |-> nic], [kind |-> "disk", name |-> disk]>>

\* deleters := []func() error{nicDeleter, diskDeleter} plus one per data disk name
Deleters(nic, disk, dataDisks) ==
    <<[kind |-> "nic", name |-> nic], [kind |-> "disk", name |-> disk]>>
    \o [k \in 1..Len(dataDisks) |-> [kind |-> "disk", name |-> dataDisks[k]]]

\* the goroutines of RunInParallel before any of them ran
Started(ds) ==
    [k \in 1..Len(ds) |-> [kind |-> ds[k].kind, name |-> ds[k].name,
                           st |-> "ready", err |-> NoErr, calls |-> <<>>]]

\* deleteVMNicDisks returns errs, to the error branch of createVMNicDisk that
\* called it or to its direct caller
TdFinish(errs, be, cs) ==
    LET t == [td EXCEPT !.done = TRUE, !.err = errs] IN
    /\ IF pc = "rollback"
       THEN Finish(Nil, RollbackReturn(createErr, errs), be, cs,
                   RollbackLog(logged, errs), t)
       ELSE Finish(Nil, errs, be, cs, logged, t)

\* the instance is gone or was never there: fan out the deleters
TdFanOut(be, cs) ==
    /\ tpc' = "parallel"
    /\ dl' = Started(Deleters(nicName, diskName, dataDiskNames))
    /\ backend' = be
    /\ calls' = cs
    /\ UNCHANGED <<req, cancelled, op, pc, createErr, vmImageRef, ret, td, logged, prev>>

\* a direct call of deleteVMNicDisks with the names derived from the request
CallDelete ==
    /\ pc = "idle"
    /\ Enter("deleteVMNicDisks", "delete",
             [count |-> 1, pre |-> Ref(backend), done |-> FALSE, err |-> NoErr], "vmGet")

\* variant: NotFound is not told apart from the other errors
FatalVMGetAlways(r) == TRUE

\* else if !spi.NotFound(vmErr): bubble up
FatalVMGet(r) == r # "notfound"

TdVMGet ==
    /\ tpc = "vmGet"
    /\ \E r \in Results({"ok", "notfound", "fail"}) :
          LET cs == Append(calls, Call("vm.Get", vmName, r)) IN
          /\ r = "ok" => backend.vm # Nil
          /\ r = "notfound" => backend.vm = Nil
          /\ IF r = "ok"
             THEN /\ tpc' = "detach"
                  /\ calls' = cs
                  /\ UNCHANGED <<req, cancelled, backend, op, pc, dl, createErr, vmImageRef, ret,
                                 td, logged, prev>>
             ELSE IF FatalVMGet(r)
                  THEN TdFinish({"vm.Get"}, backend, cs)
                  ELSE TdFanOut(backend, cs)

\* spi.WaitForDataDiskDetachment: nothing is sent when no data disk is attached;
\* its result is not looked at by deleteVMNicDisks
TdDetach ==
    /\ tpc = "detach"
    /\ tpc' = "vmDelete"
    /\ UNCHANGED <<req, cancelled, op, pc, dl, createErr, vmImageRef, ret, td, logged, prev>>
    /\ IF Deref(backend.vm).DataDisks = <<>>
       THEN UNCHANGED <<backend, calls>>
       ELSE \E r \in Results({"ok", "fail"}) :
               /\ calls' = Append(calls, Call("vm.Detach", vmName, r))
               /\ backend' = IF r = "ok"
                             THEN [backend EXCEPT
                                      !.vm = Ref([Deref(@) EXCEPT !.DataDisks = <<>>])]
                             ELSE backend

\* variant: the deleters are started although the instance delete failed
TdVMDeleteIgnoringError ==
    /\ tpc = "vmDelete"
    /\ \E r \in Results({"ok", "fail"}) :
          LET cs == Append(calls, Call("vm.Delete", vmName, r)) IN
          IF r = "ok"
          THEN TdFanOut(RemoveVM(backend), cs)
          ELSE TdFanOut(backend, cs)

TdVMDelete ==
    /\ tpc = "vmDelete"
    /\ \E r \in Results({"ok", "fail"}) :
          LET cs == Append(calls, Call("vm.Delete", vmName, r)) IN
          IF r = "ok"
          THEN TdFanOut(RemoveVM(backend), cs)
          ELSE TdFinish({"DeleteVM"}, backend, cs)

\* variant: the deleters write their result to one variable they share
DeleterStepSharedErr(k, st, err, be, c) ==
    /\ dl' = [j \in 1..Len(dl) |->
                 IF j = k
                 THEN [dl[j] EXCEPT !.st = st, !.err = err, !.calls = Append(@, c)]
                 ELSE [dl[j] EXCEPT !.err = err]]
    /\ backend' = be
    /\ UNCHANGED <<req, cancelled, op, pc, tpc, calls, createErr, vmImageRef, ret, td, logged, prev>>

\* deleter k issues call c, moves to state st with result err
DeleterStep(k, st, err, be, c) ==
    /\ dl' = [dl EXCEPT ![k].st = st, ![k].err = err, ![k].calls = Append(@, c)]
    /\ backend' = be
    /\ UNCHANGED <<req, cancelled, op, pc, tpc, calls, createErr, vmImageRef, ret, td, logged, prev>>

ConflictErr(nic, vmHoldingNic) ==
    {"Cannot delete NIC " \o nic \o " because it is attached to VM " \o vmHoldingNic}

\* variant: the holder of the NIC is not looked at
HeldNever(vmHoldingNic) == FALSE

\* else if vmHoldingNic != "": the NIC is not deleted
Held(vmHoldingNic) == vmHoldingNic # ""

\* nicDeleter: spi.FetchAttachedVMfromNIC, then spi.DeleteNIC
NicDeleter ==
    /\ tpc = "parallel"
    /\ \E k \in 1..Len(dl) :
          /\ dl[k].kind = "nic"
          /\ \/ /\ dl[k].st = "ready"
                /\ \E r \in Results({"ok", "notfound", "fail"}) :
                      LET c == Call("nic.Get", dl[k].name, r)
                          vmHoldingNic == backend.nicVM IN
                      CASE r = "ok" ->
                             /\ backend.nic
                             /\ IF Held(vmHoldingNic)
                                THEN DeleterStep(k, "done",
                                                 ConflictErr(dl[k].name, vmHoldingNic),
                                                 backend, c)
                                ELSE DeleterStep(k, "fetched", NoErr, backend, c)
                        [] r = "notfound" ->
                             ~backend.nic /\ DeleterStep(k, "done", NoErr, backend, c)
                        [] r = "fail" -> DeleterStep(k, "done", {"nic.Get"}, backend, c)
             \/ /\ dl[k].st = "fetched"
                /\ \E r \in Results({"ok", "fail"}) :
                      LET c == Call("nic.Delete", dl[k].name, r) IN
                      IF r = "ok"
                      THEN DeleterStep(k, "done", NoErr,
                                       [backend EXCEPT !.nic = FALSE, !.nicVM = ""], c)
                      ELSE DeleterStep(k, "done", {"nic.Delete"}, backend, c)

\* spi.GetDeleterForDisk: get the disk, NotFound is success, else delete it
DiskDeleter ==
    /\ tpc = "parallel"
    /\ \E k \in 1..Len(dl) :
          /\ dl[k].kind = "disk"
          /\ \/ /\ dl[k].st = "ready"
                /\ \E r \in Results({"ok", "notfound", "fail"}) :
                      LET c == Call("disk.Get", dl[k].name, r) IN
                      CASE r = "ok" ->
                             /\ dl[k].name \in backend.disks
                             /\ DeleterStep(k, "fetched", NoErr, backend, c)
                        [] r = "notfound" ->
                             /\ dl[k].name \notin backend.disks
                             /\ DeleterStep(k, "done", NoErr, backend, c)
                        [] r = "fail" ->
                             DeleterStep(k, "done", {"disk.Get " \o dl[k].name}, backend, c)
             \/ /\ dl[k].st = "fetched"
                /\ \E r \in Results({"ok", "fail"}) :
                      LET c == Call("disk.Delete", dl[k].name, r) IN
                      IF r = "ok"
                      THEN DeleterStep(k, "done", NoErr,
                                       [backend EXCEPT !.disks = @ \ {dl[k].name}], c)
                      ELSE DeleterStep(k, "done", {"disk.Delete " \o dl[k].name}, backend, c)

\* spi.RunInParallel: wait for every deleter, join their errors
RunInParallel(results) == UNION {results[k].err : k \in 1..Len(results)}

TdJoin ==
    /\ tpc = "parallel"
    /\ \A k \in 1..Len(dl) : dl[k].st = "done"
    /\ TdFinish(RunInParallel(dl), backend, calls)

---------------------------------------------------------------------------
(* The fake plugin and the environment *)

\* &driver.CreateMachineResponse{ProviderID: providerID, NodeName: req.Machine.Name}
CreateMachineResponse(r) ==
    [ProviderID |-> "azure:///" \o r.Location \o "/" \o JoinChars(r.Name),
     NodeName |-> JoinChars(r.Name)]

\* PluginSPIImpl.CreateMachine: decode the provider spec, answer with the
\* provider ID and the node name; no backend call
CreateMachine ==
    /\ pc = "idle"
    /\ \E r \in {"ok", "decodeProviderSpecAndSecret"} :
          IF r = "ok"
          THEN Immediate("CreateMachine", Ref(CreateMachineResponse(req)), NoErr)
          ELSE Immediate("CreateMachine", Nil, {r})

\* PluginSPIImpl.DeleteMachine: always an empty response and no error
DeleteMachine ==
    /\ pc = "idle"
    /\ Immediate("DeleteMachine", Nil, NoErr)

\* another instance takes the free NIC, or gives it back, between two calls
ExternalAttach ==
    /\ pc = "idle"
    /\ backend.nic
    /\ backend.nicVM \in {"", OtherVM}
    /\ backend' = [backend EXCEPT !.nicVM = IF @ = "" THEN OtherVM ELSE ""]
    /\ op' = "none"
    /\ dl' = <<>>
    /\ calls' = <<>>
    /\ ret' = [vm |-> Nil, err |-> NoErr]
    /\ td' = NoTeardown
    /\ logged' = {}
    /\ prev' = Summary("none", [err |-> NoErr], <<>>)
    /\ UNCHANGED <<req, cancelled, pc, tpc, createErr, vmImageRef>>

---------------------------------------------------------------------------

Next ==
    \/ CallCreate \/ SubnetGet \/ NicCreate \/ NicAwait \/ NicFetch
    \/ ImageGet \/ AgreementGet \/ AgreementAccept
    \/ VMCreate \/ VMAwait \/ VMFetch
    \/ CallDelete \/ TdVMGet \/ TdDetach \/ TdVMDelete
    \/ NicDeleter \/ DiskDeleter \/ TdJoin
    \/ CreateMachine \/ DeleteMachine \/ ExternalAttach

Spec == Init /\ [][Next]_vars

---------------------------------------------------------------------------
(* The engine with a caller that may cancel: CreateMachine is given a       *)
(* context by its caller, who may raise its signal while the creation is    *)
(* in flight, after the subnet was resolved and before a step has failed.   *)

InFlight ==
    {"nicCreate", "nicAwait", "nicFetch", "imageGet", "agreementGet",
     "agreementAccept", "vmCreate", "vmAwait", "vmFetch"}

Cancel ==
    /\ op = "createVMNicDisk"
    /\ pc \in InFlight
    /\ ~cancelled
    /\ cancelled' = TRUE
    /\ UNCHANGED <<req, backend, op, pc, tpc, dl, calls, createErr, vmImageRef, ret,
                   td, logged, prev>>

CancelNext == Next \/ Cancel

CancelSpec == Init /\ [][CancelNext]_vars

---------------------------------------------------------------------------
(* The naming and definition helpers on their own: the inputs are drawn    *)
(* from a wider set of provider specs, the instance definition is built as *)
(* createVMNicDisk builds it and the deleters are named as deleteVMNicDisks *)
(* names them.                                                             *)

\* the data disks of a provider spec of NamingInit
MaxListLen == 2

DiskNames == {"", "a"}

Luns == {Nil, Ref(1), Ref(12)}

Cachings == {"", "ReadOnly"}

\* storage tier and size of a descriptor go with its caching
Storage ==
    [c \in Cachings |->
        IF c = ""
        THEN [StorageAccountType |-> "Standard_LRS", DiskSizeGB |-> 50]
        ELSE [StorageAccountType |-> "Premium_LRS", DiskSizeGB |-> 20]]

AzureDataDisks ==
    {[Name |-> n, Lun |-> l, Caching |-> c,
      StorageAccountType |-> Storage[c].StorageAccountType,
      DiskSizeGB |-> Storage[c].DiskSizeGB] : n \in DiskNames, l \in Luns, c \in Cachings}

NamingDiskLists == UNION { [1..n -> AzureDataDisks] : n \in 0..MaxListLen }

NamingMachineNames == { <<"V", "M", "-", "1">>, <<"v", "m", "-", "1">> }

NamingRequests ==
    [Name : NamingMachineNames, Location : {"westeurope"},
     DataDisks : NamingDiskLists, ImageID : {""},
     Zone : {Nil, Ref(1)}, AvailabilitySet : {Nil, Ref("as-id")}]

\* the images getVMParameters may be given: none, one without and one with a plan
Images == {Nil, Ref([Plan |-> Nil]), Ref([Plan |-> Ref("plan")])}

NamingInit ==
    /\ req \in NamingRequests
    /\ backend = [vm |-> Nil, nic |-> FALSE, nicVM |-> "", disks |-> {},
                  imagePlan |-> Nil, agreement |-> Nil]
    /\ op = "none"
    /\ pc = "idle"
    /\ tpc = "none"
    /\ dl = <<>>
    /\ calls = <<>>
    /\ createErr = NoErr
    /\ vmImageRef = Nil
    /\ ret = [vm |-> Nil, nic |-> Nil, dataDisks |-> Nil, err |-> NoErr]
    /\ td = NoTeardown
    /\ logged = {}
    /\ prev = Summary("none", [err |-> NoErr], <<>>)
    /\ cancelled = FALSE

\* NICParameters := d.getNICParameters(vmName, &subnet)
BuildNICParameters ==
    /\ ret.nic = Nil
    /\ op' = "getNICParameters"
    /\ ret' = [ret EXCEPT !.nic = Ref(getNICParameters(vmName))]
    /\ UNCHANGED <<req, cancelled, backend, pc, tpc, dl, calls, createErr, vmImageRef, td,
                   logged, prev>>

\* VMParameters := d.getVMParameters(vmName, vmImageRef, *NIC.ID)
BuildVMParameters ==
    /\ ret.vm = Nil
    /\ \E image \in Images :
          /\ vmImageRef' = image
          /\ ret' = [ret EXCEPT !.vm = Ref(getVMParameters(req, vmName, image, nicName))]
    /\ op' = "getVMParameters"
    /\ UNCHANGED <<req, cancelled, backend, pc, tpc, dl, calls, createErr, td, logged, prev>>

\* dataDisks := d.generateDataDisks(vmName, ...DataDisks), here for an empty
\* list too
GenerateDataDisks ==
    /\ ret.dataDisks = Nil
    /\ op' = "generateDataDisks"
    /\ ret' = [ret EXCEPT !.dataDisks = Ref(generateDataDisks(vmName, req.DataDisks))]
    /\ UNCHANGED <<req, cancelled, backend, pc, tpc, dl, calls, createErr, vmImageRef, td,
                   logged, prev>>

\* the deleters of deleteVMNicDisks, named by the locals of createVMNicDisk
NameDeleters ==
    /\ dl = <<>>
    /\ dl' = Started(Deleters(nicName, diskName, dataDiskNames))
    /\ op' = "deleteVMNicDisks"
    /\ UNCHANGED <<req, cancelled, backend, pc, tpc, calls, createErr, vmImageRef, ret, td,
                   logged, prev>>

NamingNext ==
    BuildNICParameters \/ BuildVMParameters \/ GenerateDataDisks \/ NameDeleters

NamingSpec == NamingInit /\ [][NamingNext]_vars

---------------------------------------------------------------------------
(* Vocabulary of the properties *)

\* the creation steps after subnet resolution and the error each one returns
StepErr ==
    [o \in {"nic.CreateOrUpdate", "nic.WaitForCompletionRef", "nic.Result",
             "images.Get", "marketplace.Get", "marketplace.Create",
             "vm.CreateOrUpdate", "vm.WaitForCompletionRef", "vm.Result"} |->
        CASE o = "nic.CreateOrUpdate" -> {"NIC.CreateOrUpdate"}
          [] o = "nic.WaitForCompletionRef" -> {"NIC.WaitForCompletionRef"}
          [] o = "nic.Result" -> {"NIC.Result"}
          [] o = "images.Get" -> {"VirtualMachineImages.Get"}
          [] o = "marketplace.Get" -> {"MarketplaceAgreements.Get"}
          [] o = "marketplace.Create" -> {"MarketplaceAgreements.Create"}
          [] o = "vm.CreateOrUpdate" -> {"VM.CreateOrUpdate"}
          [] o = "vm.WaitForCompletionRef" -> {"VM.WaitForCompletionRef"}
          [] o = "vm.Result" -> {"VM.Result"}]

CreationOps == DOMAIN StepErr \cup {"subnet.Get"}

\* the errors deleteVMNicDisks can return by itself
TeardownErrs(e) == e \cap UNION {StepErr[o] : o \in DOMAIN StepErr} = {}

Returned(o) == pc = "idle" /\ op = o

\* the creation steps of the current call that failed after subnet resolution
FailedSteps == {k \in 1..Len(calls) : calls[k].op \in DOMAIN StepErr /\ calls[k].res = "fail"}

Has(cs, o, r) == \E k \in 1..Len(cs) : cs[k].op = o /\ cs[k].res = r

Issued(cs, o) == \E k \in 1..Len(cs) : cs[k].op = o

\* the disks of the instance definition built for the machine
MachineDisks == DiskNamesOf(getVMParameters(req, vmName, Nil, nicName))

\* nothing named for the machine exists in be
Clean(be) == be.vm = Nil /\ ~be.nic /\ be.disks \cap MachineDisks = {}

NoFaults == FaultsIn(AllCalls(calls, dl)) = 0

---------------------------------------------------------------------------
(* C1: whenever a creation step after subnet resolution fails,              *)
(* createVMNicDisk runs deleteVMNicDisks exactly once before it returns and *)
(* returns the error of the failed step; a teardown error is logged and is  *)
(* never the error returned.                                                *)

C1_RollbackOnceOriginalError ==
    /\ td.count <= 1
    /\ (op = "createVMNicDisk" /\ FailedSteps # {}) =>
          /\ Cardinality(FailedSteps) = 1
          /\ td.count = 1
          /\ pc \in {"rollback", "idle"}
          /\ pc = "idle" =>
                /\ td.done
                /\ \A k \in FailedSteps : ret.err = StepErr[calls[k].op]
                /\ ret.vm = Nil
                /\ td.err # NoErr => (td.err \in logged /\ ret.err # td.err)
                /\ td.err = NoErr => logged = {}

C1_Witness ==
    /\ Returned("createVMNicDisk")
    /\ Has(calls, "vm.WaitForCompletionRef", "fail")
    /\ td.done /\ td.err # NoErr /\ td.err \in logged
    /\ ret.err = {"VM.WaitForCompletionRef"}

---------------------------------------------------------------------------
(* C2: when createVMNicDisk returns the error of a step after subnet        *)
(* resolution and its rollback teardown returned success, the backend holds *)
(* no instance, no NIC, no OS disk and no data disk named for the machine.  *)

C2_NoOrphansAfterRollback ==
    (Returned("createVMNicDisk") /\ ret.err # NoErr /\ td.count = 1 /\ td.err = NoErr)
        => Clean(backend)

C2_Witness ==
    /\ Returned("createVMNicDisk") /\ ret.err # NoErr /\ td.count = 1 /\ td.err = NoErr
    /\ Deref(td.pre).vm # Nil /\ Deref(td.pre).nic
    /\ MachineDisks \subseteq Deref(td.pre).disks
    /\ Len(dataDiskNames) > 0
    /\ Clean(backend)

---------------------------------------------------------------------------
(* C3: the backend operations of createVMNicDisk are issued in the order    *)
(* subnet get, NIC create, NIC await, NIC fetch, image get, agreement get,  *)
(* agreement accept, instance create, instance await, instance fetch; each  *)
(* one only after every earlier one succeeded, and the instance create only *)
(* with the NIC realized.                                                   *)

\* the steps that may directly follow a creation step
NextSteps ==
    [o \in CreationOps |->
        CASE o = "subnet.Get" -> {"nic.CreateOrUpdate"}
          [] o = "nic.CreateOrUpdate" -> {"nic.WaitForCompletionRef"}
          [] o = "nic.WaitForCompletionRef" -> {"nic.Result"}
          [] o = "nic.Result" -> {"images.Get", "vm.CreateOrUpdate"}
          [] o = "images.Get" -> {"marketplace.Get", "vm.CreateOrUpdate"}
          [] o = "marketplace.Get" -> {"marketplace.Create", "vm.CreateOrUpdate"}
          [] o = "marketplace.Create" -> {"vm.CreateOrUpdate"}
          [] o = "vm.CreateOrUpdate" -> {"vm.WaitForCompletionRef"}
          [] o = "vm.WaitForCompletionRef" -> {"vm.Result"}
          [] o = "vm.Result" -> {}]

IsCreation(c) == c.op \in CreationOps

Creation(cs) == SelectSeq(cs, IsCreation)

C3_CreationOrder ==
    op = "createVMNicDisk" =>
        LET P == Creation(calls) IN
        /\ P # <<>> => P[1].op = "subnet.Get"
        /\ \A k \in 1..(Len(P) - 1) :
              P[k].res = "ok" /\ P[k + 1].op \in NextSteps[P[k].op]
        /\ \A i, j \in 1..Len(calls) :
              (i < j /\ IsCreation(calls[j])) => IsCreation(calls[i])
        /\ Issued(calls, "vm.CreateOrUpdate") =>
              /\ Has(calls, "nic.CreateOrUpdate", "ok")
              /\ Has(calls, "nic.WaitForCompletionRef", "ok")
              /\ Has(calls, "nic.Result", "ok")
        /\ pc \in {"vmCreate", "vmAwait", "vmFetch"} => backend.nic

C3_Witness ==
    /\ Returned("createVMNicDisk")
    /\ ret.err = NoErr
    /\ Len(Creation(calls)) = 10
    /\ Creation(calls)[7].op = "marketplace.Create"

---------------------------------------------------------------------------
(* C4: deleteVMNicDisks issues no call for the NIC, the OS disk or a data   *)
(* disk before the instance was deleted or its fetch reported NotFound;     *)
(* when the instance fetch fails otherwise or the instance delete fails it  *)
(* returns that error at once and starts no deleter.                        *)

C4_InstanceFirst ==
    /\ dl # <<>> =>
          /\ Has(calls, "vm.Get", "notfound") \/ Has(calls, "vm.Delete", "ok")
          /\ pc # "idle" => backend.vm = Nil
    /\ \A k \in 1..Len(calls) :
          (calls[k].op \in {"vm.Get", "vm.Delete"} /\ calls[k].res = "fail") =>
              /\ k = Len(calls)
              /\ dl = <<>>
              /\ pc = "idle"
              /\ td.done
              /\ td.err = IF calls[k].op = "vm.Get" THEN {"vm.Get"} ELSE {"DeleteVM"}
              /\ op = "deleteVMNicDisks" => ret.err = td.err

C4_Witness ==
    /\ Returned("deleteVMNicDisks")
    /\ Has(calls, "vm.Delete", "fail")
    /\ dl = <<>>
    /\ backend.nic /\ MachineDisks \subseteq backend.disks
    /\ ret.err = {"DeleteVM"}

---------------------------------------------------------------------------
(* C5: deleteVMNicDisks on names whose instance, NIC, OS disk and data     *)
(* disks are all absent returns success and deletes nothing, provided the   *)
(* backend answers its calls (NotFound is an answer); so two teardowns in   *)
(* succession both succeed, as do two DeleteMachine calls of the fake.      *)

C5_TeardownIdempotent ==
    /\ (Returned("deleteVMNicDisks") /\ Clean(Deref(td.pre)) /\ NoFaults) =>
          /\ td.done
          /\ ret.err = NoErr
          /\ \A o \in DeleteOps : ~Issued(AllCalls(calls, dl), o)
          /\ backend = Deref(td.pre)
    /\ Returned("DeleteMachine") => (ret.err = NoErr /\ calls = <<>>)

C5_Witness ==
    /\ Returned("deleteVMNicDisks")
    /\ prev.op = "deleteVMNicDisks" /\ prev.ok /\ prev.deleted
    /\ Clean(Deref(td.pre)) /\ NoFaults
    /\ Len(dl) = 3
    /\ ret.err = NoErr

---------------------------------------------------------------------------
(* C6: after a creation that failed with the NIC created and no instance,   *)
(* a teardown with the same names that the backend answers removes the NIC  *)
(* and every disk of the machine and succeeds; a teardown repeated after a  *)
(* successful one succeeds and deletes nothing.                             *)

DeletedBy(d, o) == Has(d.calls, o, "ok")

C6_RollbackCompleteness ==
    /\ (/\ Returned("deleteVMNicDisks") /\ NoFaults
        /\ prev.op = "createVMNicDisk" /\ ~prev.ok
        /\ Deref(td.pre).vm = Nil /\ Deref(td.pre).nic /\ Deref(td.pre).nicVM = "") =>
          /\ ret.err = NoErr
          /\ Clean(backend)
          /\ \E k \in 1..Len(dl) : dl[k].name = "vm-1-nic" /\ DeletedBy(dl[k], "nic.Delete")
          /\ \A n \in Deref(td.pre).disks \cap MachineDisks :
                \E k \in 1..Len(dl) : dl[k].name = n /\ DeletedBy(dl[k], "disk.Delete")
    /\ (/\ Returned("deleteVMNicDisks") /\ NoFaults
        /\ prev.op = "deleteVMNicDisks" /\ prev.ok) =>
          /\ ret.err = NoErr
          /\ \A o \in DeleteOps : ~Issued(AllCalls(calls, dl), o)
          /\ backend = Deref(td.pre)

C6_Witness ==
    /\ Returned("deleteVMNicDisks") /\ NoFaults
    /\ prev.op = "createVMNicDisk" /\ ~prev.ok
    /\ Deref(td.pre).vm = Nil /\ Deref(td.pre).nic /\ Deref(td.pre).nicVM = ""
    /\ MachineDisks \subseteq Deref(td.pre).disks
    /\ Len(req.DataDisks) > 0
    /\ ret.err = NoErr /\ Clean(backend)

---------------------------------------------------------------------------
(* C7: when the NIC deleter finds the NIC attached to an instance it ends   *)
(* with the conflict error naming the NIC and that instance, teardown fails *)
(* with it and the NIC is not deleted; a NIC delete is issued only for a    *)
(* NIC that exists and is attached to no instance.                          *)

LastCall(d) == d.calls[Len(d.calls)]

IsConflict(e) == e # NoErr /\ e \cap {"nic.Get", "nic.Delete"} = {}

C7_ConflictState ==
    \A k \in 1..Len(dl) :
        (dl[k].kind = "nic" /\ IsConflict(dl[k].err)) =>
            /\ dl[k].st = "done"
            /\ ~Issued(dl[k].calls, "nic.Delete")
            /\ backend.nic /\ backend.nicVM # ""
            /\ dl[k].err =
                  {"Cannot delete NIC vm-1-nic because it is attached to VM " \o backend.nicVM}
            /\ td.done => dl[k].err \subseteq td.err
            /\ Returned("deleteVMNicDisks") => dl[k].err \subseteq ret.err

C7_ConflictStep ==
    \A k \in 1..Len(dl) :
        (Len(dl') = Len(dl) /\ dl[k].kind = "nic" /\ dl'[k].calls # dl[k].calls) =>
            /\ (LastCall(dl'[k]) = Call("nic.Get", "vm-1-nic", "ok") /\ backend.nicVM # "") =>
                  /\ IsConflict(dl'[k].err)
                  /\ dl'[k].st = "done"
                  /\ backend' = backend
            /\ LastCall(dl'[k]).op = "nic.Delete" =>
                  /\ backend.nic /\ backend.nicVM = ""
                  /\ Has(dl[k].calls, "nic.Get", "ok")

C7_ConflictDetection == []C7_ConflictState /\ [][C7_ConflictStep]_vars

C7_Witness ==
    /\ Returned("deleteVMNicDisks")
    /\ \E k \in 1..Len(dl) : dl[k].kind = "nic" /\ IsConflict(dl[k].err)
    /\ backend.nic /\ backend.nicVM = "other-vm"
    /\ ret.err = {"Cannot delete NIC vm-1-nic because it is attached to VM other-vm"}

---------------------------------------------------------------------------
(* C8: the NIC deleter, the OS disk deleter and one deleter per data disk   *)
(* name have all run to their end when deleteVMNicDisks returns from the    *)
(* parallel phase; it returns success exactly when every deleter did, the   *)
(* others complete although one failed, and what was deleted stays deleted. *)

Exists(be, d) == IF d.kind = "nic" THEN be.nic ELSE d.name \in be.disks

C8_AllDeletersJoined ==
    (td.done /\ dl # <<>>) =>
        /\ Len(dl) = 2 + Len(req.DataDisks)
        /\ dl[1].kind = "nic" /\ dl[1].name = "vm-1-nic"
        /\ dl[2].kind = "disk" /\ dl[2].name = "vm-1-os-disk"
        /\ \A k \in 1..Len(req.DataDisks) :
              /\ dl[2 + k].kind = "disk"
              /\ dl[2 + k].name = generateDataDisks("vm-1", req.DataDisks)[k].Name
        /\ \A k \in 1..Len(dl) : dl[k].st = "done" /\ dl[k].calls # <<>>
        /\ td.err = NoErr <=> \A k \in 1..Len(dl) : dl[k].err = NoErr
        /\ \A k \in 1..Len(dl) : dl[k].err \subseteq td.err
        /\ \A k \in 1..Len(dl) :
              (DeletedBy(dl[k], "nic.Delete") \/ DeletedBy(dl[k], "disk.Delete"))
                  => ~Exists(backend, dl[k])

C8_Witness ==
    /\ td.done /\ Len(dl) = 3
    /\ dl[1].err # NoErr
    /\ DeletedBy(dl[2], "disk.Delete") /\ DeletedBy(dl[3], "disk.Delete")
    /\ td.err # NoErr
    /\ backend.disks = {}

---------------------------------------------------------------------------
(* C9: when the subnet get fails createVMNicDisk returns that error with no *)
(* teardown and no other backend call.                                      *)

C9_SubnetFailureNoRollback ==
    Has(calls, "subnet.Get", "fail") =>
        /\ pc = "idle"
        /\ calls = <<Call("subnet.Get", "subnet", "fail")>>
        /\ ret = [vm |-> Nil, err |-> {"Subnet.Get"}]
        /\ td = NoTeardown
        /\ dl = <<>>
        /\ logged = {}

C9_Witness ==
    /\ Returned("createVMNicDisk")
    /\ Has(calls, "subnet.Get", "fail")
    /\ backend.nic /\ backend.disks # {}
    /\ ret.err = {"Subnet.Get"}

---------------------------------------------------------------------------
(* C10: createVMNicDisk returns an instance, with a nil error, only after   *)
(* the instance create, its await and its fetch succeeded; with an error it *)
(* returns a nil instance.                                                  *)

C10_InstanceOnlyOnSuccess ==
    op = "createVMNicDisk" =>
        /\ ret.vm # Nil =>
              /\ pc = "idle"
              /\ ret.err = NoErr
              /\ Has(calls, "vm.CreateOrUpdate", "ok")
              /\ Has(calls, "vm.WaitForCompletionRef", "ok")
              /\ Has(calls, "vm.Result", "ok")
              /\ Deref(ret.vm).Name = "vm-1"
              /\ backend.vm = ret.vm
        /\ ret.err # NoErr => ret.vm = Nil
        /\ (pc = "idle" /\ ret.err = NoErr) => ret.vm # Nil

C10_Witness ==
    /\ Returned("createVMNicDisk")
    /\ ret.vm # Nil /\ ret.err = NoErr
    /\ Has(calls, "vm.Result", "ok")

---------------------------------------------------------------------------
(* C13: happy path.  For the request naming instance "vm-1" with one data   *)
(* disk that has an empty name and no LUN, createVMNicDisk creates the NIC  *)
(* "vm-1-nic", attaches a data disk with LUN 0, creates the instance "vm-1" *)
(* and returns it, and the handle of CreateMachine names that instance.     *)
(* As stated the data disk is named "0-vm-1-data-disk"; the code names it   *)
(* "vm-1-0-data-disk".                                                      *)

OneUnnamedDisk ==
    /\ req.Name = <<"v", "m", "-", "1">>
    /\ Len(req.DataDisks) = 1
    /\ req.DataDisks[1].Name = "" /\ req.DataDisks[1].Lun = Nil

HappyPath == OneUnnamedDisk /\ Returned("createVMNicDisk") /\ ret.err = NoErr

\* what the scenario says apart from the name of the data disk
HappyPathResult ==
    /\ Has(calls, "nic.CreateOrUpdate", "ok")
    /\ \A k \in 1..Len(calls) :
          calls[k].op = "nic.CreateOrUpdate" => calls[k].name = "vm-1-nic"
    /\ backend.nic /\ backend.nicVM = "vm-1"
    /\ backend.vm # Nil /\ Deref(backend.vm).Name = "vm-1"
    /\ Len(Deref(backend.vm).DataDisks) = 1
    /\ Deref(backend.vm).DataDisks[1].Lun = 0
    /\ Deref(backend.vm).DataDisks[1].DiskSizeGB = 50
    /\ Deref(backend.vm).DataDisks[1].Name \in backend.disks
    /\ ret.vm = backend.vm

HandleNamesInstance ==
    (OneUnnamedDisk /\ Returned("CreateMachine") /\ ret.err = NoErr) =>
        ret.vm = <<[ProviderID |-> "azure:///westeurope/vm-1", NodeName |-> "vm-1"]>>

\* C13 as stated
C13_HappyPathAsStated ==
    /\ HappyPath =>
          /\ HappyPathResult
          /\ Deref(backend.vm).DataDisks[1].Name = "0-vm-1-data-disk"
    /\ HandleNamesInstance

\* C13 as amended: the data disk is named "vm-1-0-data-disk"
C13_HappyPath ==
    /\ HappyPath =>
          /\ HappyPathResult
          /\ Deref(backend.vm).DataDisks[1].Name = "vm-1-0-data-disk"
    /\ HandleNamesInstance

C13_Witness ==
    /\ HappyPath
    /\ Deref(ret.vm).Name = "vm-1"
    /\ Deref(ret.vm).DataDisks[1].Name = "vm-1-0-data-disk"
    /\ "vm-1-0-data-disk" \in backend.disks

---------------------------------------------------------------------------
(* C15: for an image named by its ID createVMNicDisk issues no image get,   *)
(* no agreement get and no agreement accept, and the instance definition    *)
(* carries no plan; these calls are issued only for an image named by URN.  *)

ImageOps == {"images.Get", "marketplace.Get", "marketplace.Create"}

C15_ExplicitIdBypass ==
    /\ (op = "createVMNicDisk" /\ req.ImageID # "") =>
          /\ \A o \in ImageOps : ~Issued(calls, o)
          /\ pc \notin {"imageGet", "agreementGet", "agreementAccept"}
          /\ vmImageRef = Nil
          /\ Issued(calls, "vm.CreateOrUpdate") => VMParameters.Plan = Nil
          /\ ret.vm # Nil => Deref(ret.vm).Plan = Nil
    /\ \A k \in 1..Len(calls) : calls[k].op \in ImageOps => req.ImageID = ""

C15_Witness ==
    /\ Returned("createVMNicDisk") /\ ret.err = NoErr
    /\ req.ImageID = "image-id"
    /\ backend.imagePlan # Nil
    /\ Deref(ret.vm).Plan = Nil
    /\ \A o \in ImageOps : ~Issued(calls, o)

---------------------------------------------------------------------------
(* C16: whenever a backend operation of deleteVMNicDisks fails with an      *)
(* error other than NotFound (instance fetch, data-disk detachment,         *)
(* instance delete, NIC fetch, NIC delete, disk delete), deleteVMNicDisks   *)
(* returns an error to its caller.                                          *)

TeardownOps ==
    {"vm.Get", "vm.Detach", "vm.Delete", "nic.Get", "nic.Delete", "disk.Get",
     "disk.Delete"}

FailedIn(cs, ops) == \E k \in 1..Len(cs) : cs[k].op \in ops /\ cs[k].res = "fail"

C16_NoErrorSwallowed ==
    (td.done /\ FailedIn(AllCalls(calls, dl), TeardownOps)) => td.err # NoErr

---------------------------------------------------------------------------
(* C17: when deleteVMNicDisks finds the instance, the instance delete is    *)
(* issued only after the detachment of its data disks was observed          *)
(* complete: the instance is never deleted with a data disk attached.       *)

C17_DetachedBeforeDelete ==
    /\ tpc = "vmDelete" => Deref(backend.vm).DataDisks = <<>>
    /\ Issued(calls, "vm.Delete") => ~Has(calls, "vm.Detach", "fail")

---------------------------------------------------------------------------
(* C18: when the NIC creation fails (submit, await or fetch) the rollback   *)
(* teardown deletes no compute instance.                                    *)

NicOps == {"nic.CreateOrUpdate", "nic.WaitForCompletionRef", "nic.Result"}

C18_NicRollbackDeletesNoInstance ==
    (op = "createVMNicDisk" /\ FailedIn(calls, NicOps)) =>
        /\ ~Issued(calls, "vm.Delete")
        /\ Deref(td.pre).vm # Nil => backend.vm # Nil

---------------------------------------------------------------------------
(* C19: the parallel deleters share no mutable state: a step of a deleter   *)
(* changes its own record and the resource whose name it captured and       *)
(* nothing else, and its calls name that resource; so the result of         *)
(* deleteVMNicDisks is the join of the deleters' results and what is gone   *)
(* in the end is what the deleters deleted, whatever their interleaving.    *)

\* be with the resource of deleter d left out
Without(be, d) ==
    IF d.kind = "nic"
    THEN [be EXCEPT !.nic = FALSE, !.nicVM = ""]
    ELSE [be EXCEPT !.disks = @ \ {d.name}]

OpsOf(d) == IF d.kind = "nic" THEN {"nic.Get", "nic.Delete"} ELSE {"disk.Get", "disk.Delete"}

Deleted(d) == DeletedBy(d, "nic.Delete") \/ DeletedBy(d, "disk.Delete")

C19_DeleterStep ==
    \A k \in 1..Len(dl) :
        (Len(dl') = Len(dl) /\ dl'[k] # dl[k]) =>
            /\ \A j \in 1..Len(dl) : j # k => dl'[j] = dl[j]
            /\ dl'[k].kind = dl[k].kind /\ dl'[k].name = dl[k].name
            /\ Len(dl'[k].calls) = Len(dl[k].calls) + 1
            /\ LastCall(dl'[k]).name = dl[k].name
            /\ LastCall(dl'[k]).op \in OpsOf(dl[k])
            /\ LastCall(dl'[k]).res = "ok" /\ LastCall(dl'[k]).op \in {"nic.Get", "disk.Get"}
                  => Exists(backend, dl[k])
            /\ LastCall(dl'[k]).res = "notfound" => ~Exists(backend, dl[k])
            /\ Without(backend', dl[k]) = Without(backend, dl[k])
            /\ UNCHANGED <<calls, td, ret, createErr, logged>>

C19_JoinState ==
    (td.done /\ dl # <<>>) =>
        /\ td.err = UNION {dl[k].err : k \in 1..Len(dl)}
        /\ backend.disks =
              Deref(td.pre).disks \ {dl[k].name : k \in {j \in 2..Len(dl) : Deleted(dl[j])}}
        /\ backend.nic = (Deref(td.pre).nic /\ ~Deleted(dl[1]))

C19_InterleavingIndependence == []C19_JoinState /\ [][C19_DeleterStep]_vars

C19_Witness ==
    /\ td.done /\ Len(dl) = 3
    /\ Deleted(dl[1]) /\ Deleted(dl[3])
    /\ Has(dl[2].calls, "disk.Delete", "fail")
    /\ Len(dl[1].calls) = 2 /\ Len(dl[2].calls) = 2 /\ Len(dl[3].calls) = 2
    /\ ~backend.nic /\ backend.disks = {"vm-1-os-disk"}

---------------------------------------------------------------------------
(* Vocabulary of the naming properties, over the states of NamingSpec *)

\* the instance definition was built / the deleters were named
Built == ret.vm # Nil

Named == dl # <<>>

\* the data disks of the instance definition, and the names the data disk
\* deleters were given
BuiltDisks == DataDisksOf(Deref(ret.vm))

DeleterNames == [k \in 1..(Len(dl) - 2) |-> dl[2 + k].name]

Pair(disk) == <<disk.Name, disk.Lun>>

---------------------------------------------------------------------------
(* C11: for a fixed instance name, any two data-disk descriptors whose      *)
(* (name, LUN) pairs are distinct get distinct derived disk names, from     *)
(* getAzureDataDiskNames and from generateDataDisks.                        *)

C11_DistinctPairsDistinctNames ==
    \A i, j \in 1..Len(req.DataDisks) :
        (i # j /\ Pair(req.DataDisks[i]) # Pair(req.DataDisks[j])) =>
            /\ Named => DeleterNames[i] # DeleterNames[j]
            /\ Built => BuiltDisks[i].Name # BuiltDisks[j].Name

---------------------------------------------------------------------------
(* C12: generateDataDisks gives the i-th disk (0-based) of a list without   *)
(* explicit LUNs the LUN i, keeps explicit LUNs as they are, and in a mixed *)
(* list keeps the explicit ones and fills only the unset ones with their    *)
(* position.                                                                *)

C12_LunAssignment ==
    (Built /\ req.DataDisks # <<>>) =>
        LET given == req.DataDisks
            D == 1..Len(req.DataDisks) IN
        /\ Len(BuiltDisks) = Len(given)
        /\ (\A k \in D : given[k].Lun = Nil) =>
              [k \in D |-> BuiltDisks[k].Lun] = [k \in D |-> k - 1]
        /\ (\A k \in D : given[k].Lun # Nil) =>
              [k \in D |-> <<BuiltDisks[k].Lun>>] = [k \in D |-> given[k].Lun]
        /\ \A k \in D :
              /\ given[k].Lun # Nil => <<BuiltDisks[k].Lun>> = given[k].Lun
              /\ given[k].Lun = Nil => BuiltDisks[k].Lun = k - 1

C12_Witness ==
    /\ Built /\ Len(req.DataDisks) = 2
    /\ req.DataDisks[1].Lun = <<12>> /\ req.DataDisks[2].Lun = Nil
    /\ BuiltDisks[1].Lun = 12 /\ BuiltDisks[2].Lun = 1

---------------------------------------------------------------------------
(* C14: the instance definition built by getVMParameters never carries both *)
(* a zone and an availability set; for a spec with both it carries the zone *)
(* and no availability set.                                                 *)

C14_ZonePrecedence ==
    Built =>
        LET def == Deref(ret.vm) IN
        /\ ~(def.Zones # Nil /\ def.AvailabilitySet # Nil)
        /\ (req.Zone # Nil /\ req.AvailabilitySet # Nil) =>
              (def.Zones = <<<<"1">>>> /\ def.AvailabilitySet = Nil)
        /\ (req.Zone = Nil /\ req.AvailabilitySet # Nil) =>
              (def.Zones = Nil /\ def.AvailabilitySet = <<[ID |-> "as-id"]>>)

C14_Witness ==
    /\ Built
    /\ req.Zone = <<1>> /\ req.AvailabilitySet = <<"as-id">>
    /\ Deref(ret.vm).Zones = <<<<"1">>>>
    /\ Deref(ret.vm).AvailabilitySet = Nil

---------------------------------------------------------------------------
(* C20: for every instance name and data-disk list the ordered names that   *)
(* getAzureDataDiskNames hands to teardown are the ordered disk names that  *)
(* generateDataDisks puts into the instance definition, and the NIC and OS  *)
(* disk names of teardown are those of the NIC and instance definitions.    *)

C20_NamingAgreement ==
    (Named /\ Built /\ ret.nic # Nil) =>
        /\ DeleterNames = [k \in 1..Len(BuiltDisks) |-> BuiltDisks[k].Name]
        /\ dl[1].kind = "nic" /\ dl[1].name = Deref(ret.nic).Name
        /\ dl[2].kind = "disk" /\ dl[2].name = Deref(ret.vm).OsDisk

C20_Witness ==
    /\ Named /\ Built /\ ret.nic # Nil
    /\ req.Name = <<"V", "M", "-", "1">>
    /\ Len(req.DataDisks) = 2
    /\ req.DataDisks[1].Lun = <<12>> /\ req.DataDisks[1].Name = "a"
    /\ req.DataDisks[2].Lun = Nil
    /\ DeleterNames = <<"vm-1-a-12-data-disk", "vm-1-1-data-disk">>

---------------------------------------------------------------------------
(* C21: in createVMNicDisk the agreement is fetched exactly when the image  *)
(* resolved from the URN carries a plan; after a successful fetch the       *)
(* accept is issued exactly when the agreement is unset or false, and an    *)
(* accepted agreement gets no accept call; once the image get, the          *)
(* agreement get or the accept has failed, the teardown has been entered    *)
(* and no instance create is submitted.                                     *)

Unaccepted(agreement) == agreement = Nil \/ Deref(agreement) = FALSE

\* the image was resolved from its URN and carries a plan
PlanResolved ==
    /\ Has(calls, "images.Get", "ok")
    /\ vmImageRef # Nil /\ Deref(vmImageRef).Plan # Nil

C21_MarketplaceAgreement ==
    (op = "createVMNicDisk" /\ req.ImageID = "") =>
        LET got == Has(calls, "marketplace.Get", "ok")
            getIssued == got \/ Has(calls, "marketplace.Get", "fail")
            accepted == Has(calls, "marketplace.Create", "ok")
            acceptFailed == Has(calls, "marketplace.Create", "fail")
            unaccepted == Unaccepted(backend.agreement) IN
        /\ (getIssued \/ pc = "agreementGet") <=> PlanResolved
        /\ PlanResolved => (pc = "agreementGet" <=> ~getIssued)
        /\ pc = "agreementAccept" => (got /\ unaccepted)
        /\ (accepted \/ acceptFailed) => got
        /\ accepted => backend.agreement = Ref(TRUE)
        /\ (got /\ unaccepted) => (pc = "agreementAccept" \/ acceptFailed)
        /\ (got /\ ~accepted /\ ~acceptFailed /\ pc # "agreementAccept") =>
              backend.agreement = Ref(TRUE)
        /\ FailedIn(calls, ImageOps) =>
              /\ td.count = 1
              /\ ~Issued(calls, "vm.CreateOrUpdate")
              /\ pc \in {"rollback", "idle"}

\* an agreement found false was accepted and the instance create was submitted
C21_Witness ==
    /\ op = "createVMNicDisk"
    /\ Has(calls, "marketplace.Get", "ok")
    /\ Has(calls, "marketplace.Create", "ok")
    /\ Issued(calls, "vm.CreateOrUpdate")
    /\ backend.agreement = Ref(TRUE)

---------------------------------------------------------------------------
(* C22: within one call of createVMNicDisk or deleteVMNicDisks no backend   *)
(* operation is sent twice for the same resource: the NIC create, the       *)
(* agreement accept and the instance create are submitted at most once and  *)
(* each resource's delete is issued at most once; no creation call follows  *)
(* a failed one; and when the call has returned, a failure of any of its    *)
(* backend calls has been reported: returned, or logged by the rollback.    *)

IssuedOnce(cs) ==
    \A k, j \in 1..Len(cs) :
        (cs[k].op = cs[j].op /\ cs[k].name = cs[j].name) => k = j

NothingAfterFailure(cs) ==
    \A k \in 1..Len(cs) :
        (IsCreation(cs[k]) /\ cs[k].res = "fail") =>
            \A j \in (k + 1)..Len(cs) : ~IsCreation(cs[j])

FailuresReported(ops) ==
    /\ FailedIn(calls, CreationOps) => ret.err # NoErr
    /\ FailedIn(AllCalls(calls, dl), ops) =>
          IF op = "deleteVMNicDisks" THEN ret.err # NoErr ELSE logged # {}

C22_NoInternalRetry ==
    /\ IssuedOnce(AllCalls(calls, dl))
    /\ NothingAfterFailure(calls)
    /\ (Returned("createVMNicDisk") \/ Returned("deleteVMNicDisks")) =>
          FailuresReported(TeardownOps)

\* what holds whatever the detachment does: nothing is sent twice, and every
\* failure but that of the detachment is reported
NoRetryButDetach ==
    /\ IssuedOnce(AllCalls(calls, dl))
    /\ NothingAfterFailure(calls)
    /\ (Returned("createVMNicDisk") \/ Returned("deleteVMNicDisks")) =>
          FailuresReported(TeardownOps \ {"vm.Detach"})

---------------------------------------------------------------------------
(* C23: when the caller raises its cancellation signal while a creation is  *)
(* in flight, the signal reaches the backend calls still to be made, so the *)
(* creation is a failure: createVMNicDisk returns an error and no instance, *)
(* and the rollback teardown has been attempted.                            *)

C23_Cancellation ==
    (Returned("createVMNicDisk") /\ cancelled) =>
        /\ ret.err # NoErr /\ ret.vm = Nil
        /\ td.count = 1

---------------------------------------------------------------------------
(* C24: generateDataDisks returns one disk per descriptor, in the order of  *)
(* the descriptors; the caching of a disk is "None" when its descriptor     *)
(* leaves the caching unset and the descriptor's otherwise, its size and    *)
(* storage tier are the descriptor's and its create option is "Empty"; for  *)
(* an empty list it returns the empty sequence, and the instance definition *)
(* of getVMParameters then has its data disks field unset, while for a      *)
(* list that is not empty the field holds what generateDataDisks returns.   *)

Generated == ret.dataDisks # Nil

C24_DiskSetBuilder ==
    /\ Generated =>
          LET given == req.DataDisks
              disks == Deref(ret.dataDisks) IN
          /\ Len(disks) = Len(given)
          /\ \A k \in 1..Len(given) :
                /\ disks[k].Caching =
                      (IF given[k].Caching = "" THEN "None" ELSE given[k].Caching)
                /\ disks[k].DiskSizeGB = given[k].DiskSizeGB
                /\ disks[k].StorageAccountType = given[k].StorageAccountType
                /\ disks[k].CreateOption = "Empty"
                /\ disks[k].Lun = (IF given[k].Lun = Nil THEN k - 1 ELSE Deref(given[k].Lun))
          /\ given = <<>> => disks = <<>>
    /\ Built =>
          /\ req.DataDisks = <<>> => Deref(ret.vm).DataDisks = Nil
          /\ req.DataDisks # <<>> => Deref(ret.vm).DataDisks # Nil
    /\ (Built /\ Generated /\ req.DataDisks # <<>>) =>
          Deref(ret.vm).DataDisks = ret.dataDisks

\* two descriptors, the first with caching unset, the second with it set
C24_Witness ==
    /\ Generated /\ Built
    /\ Len(req.DataDisks) = 2
    /\ req.DataDisks[1].Caching = "" /\ req.DataDisks[2].Caching = "ReadOnly"
    /\ Deref(ret.dataDisks)[1].Caching = "None"
    /\ Deref(ret.dataDisks)[1].DiskSizeGB = 50
    /\ Deref(ret.dataDisks)[2].Caching = "ReadOnly"
    /\ Deref(ret.dataDisks)[2].StorageAccountType = "Premium_LRS"
    /\ Deref(ret.vm).DataDisks = ret.dataDisks

\* an empty list: the empty sequence is returned and the field is unset
C24_WitnessEmpty ==
    /\ Generated /\ Built
    /\ req.DataDisks = <<>>
    /\ Deref(ret.dataDisks) = <<>>
    /\ Deref(ret.vm).DataDisks = Nil

====
